---- MODULE Spec2Model ----
(***************************************************************************)
(* The credit scoring pipeline of credit_model.py (class                   *)
(* CreditScoringModel), the training entry point train_model.py and the    *)
(* request loan_app_ui.py builds.                                          *)
(*                                                                         *)
(* Processes (a training job, a serving job) share nothing but the two     *)
(* files model.bin and encoder.bin.  Each process constructs one pipeline  *)
(* object and calls its methods; a process may end at any point, also in   *)
(* the middle of train, and be started again.                              *)
(***************************************************************************)
EXTENDS Integers, Sequences, FiniteSets, TLC

\* Number of train invocations a behaviour may hold (run ids are 1..MaxRuns).
MaxRuns == 2

\* The processes: each owns at most one CreditScoringModel object at a time.
Procs == {"p1", "p2"}

Range(s) == {s[i] : i \in DOMAIN s}

Index(s, x) == CHOOSE i \in DOMAIN s : s[i] = x

(***************************************************************************)
(* Class attributes of CreditScoringModel.                                 *)
(***************************************************************************)
categorical_features ==
  << "person_home_ownership", "loan_intent", "city", "state", "location_type" >>

feast_features ==
  << [view |-> "zipcode_features", name |-> "city"],
     [view |-> "zipcode_features", name |-> "state"],
     [view |-> "zipcode_features", name |-> "location_type"],
     [view |-> "zipcode_features", name |-> "tax_returns_filed"],
     [view |-> "zipcode_features", name |-> "population"],
     [view |-> "zipcode_features", name |-> "total_wages"],
     [view |-> "credit_history", name |-> "credit_card_due"],
     [view |-> "credit_history", name |-> "mortgage_due"],
     [view |-> "credit_history", name |-> "student_loan_due"],
     [view |-> "credit_history", name |-> "vehicle_loan_due"],
     [view |-> "credit_history", name |-> "hard_pulls"],
     [view |-> "credit_history", name |-> "missed_payments_2y"],
     [view |-> "credit_history", name |-> "missed_payments_1y"],
     [view |-> "credit_history", name |-> "missed_payments_6m"],
     [view |-> "credit_history", name |-> "bankruptcies"],
     [view |-> "total_debt_calc", name |-> "total_debt_due"] >>

target == "loan_status"

\* The columns a retrieval of feast_features adds, in the order asked for: a
\* reference "view:name" yields the column "name" (the views and their fields
\* are those feature_repo/features.py declares).
FeatureColumns ==
  [i \in DOMAIN feast_features |-> feast_features[i].name]

(***************************************************************************)
(* Python's sorted() on strings orders by code point.  CodePointOrder      *)
(* lists every string of the model in that order (upper case before lower  *)
(* case); sorted(s) is the elements of s in that order.                    *)
(***************************************************************************)
CodePointOrder ==
  << "CA", "MEDICAL", "NEW YORK", "NY", "PERSONAL", "PRIMARY", "RENT",
     "SAN FRANCISCO", "VENTURE",
     "bankruptcies", "city", "created_timestamp", "credit_card_due",
     "dob_ssn", "event_timestamp", "hard_pulls", "loan_amnt", "loan_id",
     "loan_int_rate", "loan_intent", "loan_status", "location_type",
     "missed_payments_1y", "missed_payments_2y", "missed_payments_6m",
     "mortgage_due", "person_age", "person_emp_length",
     "person_home_ownership", "person_income", "population", "state",
     "student_loan_due", "tax_returns_filed", "total_debt_due",
     "total_wages", "vehicle_loan_due", "zipcode" >>

sorted(S) == LET member(x) == x \in S IN SelectSeq(CodePointOrder, member)

\* pandas Index.drop(label): the labels without it, order kept.
drop(columns, label) ==
  LET other(x) == x # label IN SelectSeq(columns, other)

\* dict.update / DataFrame column order: the keys of a, then the new keys of b.
update(a, b) ==
  LET new(x) == x \notin Range(a) IN a \o SelectSeq(b, new)

Reverse(s) == [i \in 1..Len(s) |-> s[Len(s) + 1 - i]]

(***************************************************************************)
(* Data.  loan_app_ui.py builds the request; the loan table read by        *)
(* train_model.py carries the same application attributes for each         *)
(* historical loan, with its id, its outcome and the two timestamps that   *)
(* _get_training_features drops.                                           *)
(***************************************************************************)
RequestKeys ==
  << "zipcode", "dob_ssn", "person_age", "person_income",
     "person_home_ownership", "person_emp_length", "loan_intent",
     "loan_amnt", "loan_int_rate" >>

get_loan_request(zipcode, loan_intent) ==
  [zipcode |-> zipcode, dob_ssn |-> "19860319_3643", person_age |-> 25,
   person_income |-> 120000, person_home_ownership |-> "RENT",
   person_emp_length |-> 12, loan_intent |-> loan_intent,
   loan_amnt |-> 10000, loan_int_rate |-> 12]

Zipcodes == {94109, 10001}

Intents == {"PERSONAL", "MEDICAL"}

Requests == {get_loan_request(z, i) : z \in Zipcodes, i \in Intents}

NoRequest == get_loan_request(0, "")

LoanTableColumns ==
  << "loan_id", "dob_ssn", "zipcode", "person_age", "person_income",
     "person_home_ownership", "person_emp_length", "loan_intent",
     "loan_amnt", "loan_int_rate", "loan_status", "event_timestamp",
     "created_timestamp" >>

\* The zipcode feature view's rows (the same table backs both retrievals).
ZipcodeTable(zipcode) ==
  IF zipcode = 94109
    THEN [city |-> "SAN FRANCISCO", state |-> "CA", location_type |-> "PRIMARY"]
    ELSE [city |-> "NEW YORK", state |-> "NY", location_type |-> "PRIMARY"]

\* Loan tables: the column order of the file and what its rows hold.
Corpora ==
  { [columns |-> LoanTableColumns, zipcodes |-> {94109},
     loan_intent |-> {"PERSONAL", "VENTURE"},
     person_home_ownership |-> {"RENT"}],
    [columns |-> Reverse(LoanTableColumns), zipcodes |-> {94109, 10001},
     loan_intent |-> {"MEDICAL", "PERSONAL"},
     person_home_ownership |-> {"RENT"}] }

NoCorpus ==
  [columns |-> << >>, zipcodes |-> {}, loan_intent |-> {},
   person_home_ownership |-> {}]

(***************************************************************************)
(* Feature store retrievals.                                               *)
(***************************************************************************)
\* get_historical_features(...).to_df(): the entity columns, then the features.
HistoricalColumns(loans) == loans.columns \o FeatureColumns

\* The values each categorical column of the joined training table holds.
HistoricalValues(loans) ==
  [c \in Range(categorical_features) |->
     CASE c = "person_home_ownership" -> loans.person_home_ownership
       [] c = "loan_intent" -> loans.loan_intent
       [] c = "city" -> {ZipcodeTable(z).city : z \in loans.zipcodes}
       [] c = "state" -> {ZipcodeTable(z).state : z \in loans.zipcodes}
       [] c = "location_type" ->
            {ZipcodeTable(z).location_type : z \in loans.zipcodes}]

\* get_online_features(...).to_dict(): the entity row's keys, then the features.
OnlineKeys == << "zipcode", "dob_ssn", "loan_amnt" >> \o FeatureColumns

\* The categorical columns of the one-row frame predict builds: the request's
\* fields, overwritten and extended by the online lookup for its zipcode.
ServingValues(request) ==
  [c \in Range(categorical_features) |->
     CASE c = "person_home_ownership" -> {request.person_home_ownership}
       [] c = "loan_intent" -> {request.loan_intent}
       [] c = "city" -> {ZipcodeTable(request.zipcode).city}
       [] c = "state" -> {ZipcodeTable(request.zipcode).state}
       [] c = "location_type" -> {ZipcodeTable(request.zipcode).location_type}]

(***************************************************************************)
(* sklearn's OrdinalEncoder and DecisionTreeClassifier, as far as the      *)
(* pipeline observes them.  run is the train invocation that fitted the    *)
(* object (0: never fitted).                                               *)
(***************************************************************************)
OrdinalEncoder ==
  [fitted |-> FALSE,
   categories_ |-> [c \in Range(categorical_features) |-> << >>],
   run |-> 0]

DecisionTreeClassifier ==
  [fitted |-> FALSE, feature_names_in_ |-> << >>, run |-> 0]

\* A table's categorical part is given as the set of values each column holds.
\* encoder.fit(X): one sorted vocabulary per column, whatever was there before.
encoder_fit(encoder, values, run) ==
  [fitted |-> TRUE,
   categories_ |-> [c \in Range(categorical_features) |-> sorted(values[c])],
   run |-> run]

\* (what encoder_transform would be with handle_unknown='use_encoded_value':
\* a value outside the vocabulary gets the code -1 and nothing is raised)
encoder_transform_unknown_coded(encoder, values) ==
  IF ~encoder.fitted
    THEN [err |-> "NotFittedError", codes |-> << >>]
    ELSE [err |-> "",
          codes |-> [c \in Range(categorical_features) |->
                       [v \in values[c] |->
                          IF v \in Range(encoder.categories_[c])
                            THEN Index(encoder.categories_[c], v) - 1
                            ELSE -1]]]

\* encoder.transform(X), handle_unknown='error' (the constructor's default):
\* the code of a value is its position in the column's vocabulary, from 0.
encoder_transform(encoder, values) ==
  IF ~encoder.fitted
    THEN [err |-> "NotFittedError", codes |-> << >>]
    ELSE IF \E c \in Range(categorical_features) :
              ~(values[c] \subseteq Range(encoder.categories_[c]))
      THEN [err |-> "UnknownCategory", codes |-> << >>]
      ELSE [err |-> "",
            codes |-> [c \in Range(categorical_features) |->
                         [v \in values[c] |->
                            Index(encoder.categories_[c], v) - 1]]]

\* classifier.fit(X, y) on a frame with these columns.
classifier_fit(columns, run) ==
  [fitted |-> TRUE, feature_names_in_ |-> columns, run |-> run]

\* classifier.predict(X): refuses an unfitted tree and a frame whose columns
\* are not those it was fitted on.
classifier_predict(classifier, columns) ==
  IF ~classifier.fitted THEN "NotFittedError"
  ELSE IF columns # classifier.feature_names_in_ THEN "ValueError"
  ELSE ""

\* is_model_trained(): check_is_fitted(self.classifier, "tree_").
is_model_trained(classifier) == classifier.fitted

(***************************************************************************)
(* The columns handed to the classifier on the two paths.                  *)
(***************************************************************************)
\* (what train_X_columns would be without .drop("loan_id"))
train_X_columns_keeps_loan_id(training_df_columns) ==
  LET kept == drop(drop(drop(drop(drop(training_df_columns, target),
                "event_timestamp"), "created_timestamp"),
                "zipcode"), "dob_ssn")
  IN sorted(Range(kept))

\* _get_training_features: drop target, timestamps and identifiers, then sort.
train_X_columns(training_df_columns) ==
  LET kept == drop(drop(drop(drop(drop(drop(training_df_columns, target),
                "event_timestamp"), "created_timestamp"), "loan_id"),
                "zipcode"), "dob_ssn")
  IN sorted(Range(kept))

\* train: classifier.fit(train_X[sorted(train_X)], train_Y).
fit_columns(loans) == sorted(Range(train_X_columns(HistoricalColumns(loans))))

\* (what predict_columns would be without .drop("dob_ssn"))
predict_columns_keeps_dob_ssn(request_keys) ==
  LET features == update(request_keys, OnlineKeys)
  IN drop(sorted(Range(features)), "zipcode")

\* predict: merge request and lookup, sort, drop the identifiers.
predict_columns(request_keys) ==
  LET features == update(request_keys, OnlineKeys)
  IN drop(drop(sorted(Range(features)), "zipcode"), "dob_ssn")

\* Both lists, computed once: for each loan table, and for the request's keys.
FitColumns == [loans \in Corpora |-> fit_columns(loans)]

PredictColumns == predict_columns(RequestKeys)

\* A request is a mapping: its keys may come in any order.
RequestKeyOrders == {RequestKeys, Reverse(RequestKeys)}

PredictColumnsOf == [keys \in RequestKeyOrders |-> predict_columns(keys)]

\* (what _apply_ordinal_encoding would be with fit_transform for transform)
apply_ordinal_encoding_refits(encoder, values) ==
  LET refitted == encoder_fit(encoder, values, encoder.run)
  IN [result |-> encoder_transform(refitted, values), encoder |-> refitted]

\* _apply_ordinal_encoding: transform with the encoder as it is; the encoder
\* is read, not written.
apply_ordinal_encoding(encoder, values) ==
  [result |-> encoder_transform(encoder, values), encoder |-> encoder]

(***************************************************************************)
(* State.                                                                  *)
(*   model_file, encoder_file  the two artifacts: absent, partial (opened  *)
(*                             for writing, not yet closed) or complete    *)
(*   pc[p]          where process p stands                                 *)
(*   classifier[p]  self.classifier          encoder[p]  self.encoder      *)
(*   loaded[p]      what the constructor found on disk                     *)
(*   call[p]        the train call p is inside: its table, its run id,     *)
(*                  and whether it found the model trained and the encoder *)
(*                  as loaded from disk                                    *)
(*   last[p]        p's last finished call and how it ended                *)
(*   next_run       the id the next train invocation gets                  *)
(*   completed      the train invocations that returned                    *)
(***************************************************************************)
VARIABLES model_file, encoder_file, pc, classifier, encoder, loaded, call,
          last, next_run, completed

vars == << model_file, encoder_file, pc, classifier, encoder, loaded, call,
           last, next_run, completed >>

memory == << classifier, encoder >>

artifacts == << model_file, encoder_file >>

TrainPcs ==
  {"encoder_fitted", "encoder_writing", "encoder_saved", "classifier_fitted",
   "model_writing"}

NoFile(fresh) == [st |-> "absent", content |-> fresh]

NotLoaded ==
  [model |-> "", encoder |-> "", encoder_run |-> 0, after_train |-> FALSE]

NoCall ==
  [loans |-> NoCorpus, run |-> 0, was_trained |-> FALSE,
   encoder_loaded |-> FALSE]

Outcome(op, request, err, label) ==
  [op |-> op, request |-> request, err |-> err, label |-> label]

NoOutcome == Outcome("", NoRequest, "", -1)

Init ==
  /\ model_file = NoFile(DecisionTreeClassifier)
  /\ encoder_file = NoFile(OrdinalEncoder)
  /\ pc = [p \in Procs |-> "init"]
  /\ classifier = [p \in Procs |-> DecisionTreeClassifier]
  /\ encoder = [p \in Procs |-> OrdinalEncoder]
  /\ loaded = [p \in Procs |-> NotLoaded]
  /\ call = [p \in Procs |-> NoCall]
  /\ last = [p \in Procs |-> NoOutcome]
  /\ next_run = 1
  /\ completed = {}

(***************************************************************************)
(* joblib.  load of a file that dump has not finished reads a truncated    *)
(* pickle and raises; dump opens the target itself for writing, which      *)
(* empties it, and the file is whole once the dump returns.                *)
(***************************************************************************)
joblib_load(file) ==
  IF file.st = "complete" THEN [err |-> "", object |-> file.content]
  ELSE [err |-> "LoadError", object |-> file.content]

joblib_dump_open(nothing) == [st |-> "partial", content |-> nothing]

joblib_dump_close(object) == [st |-> "complete", content |-> object]

(***************************************************************************)
(* __init__, first half: the model.                                        *)
(***************************************************************************)
CtorLoadModel(p) ==
  /\ pc[p] = "init"
  /\ loaded' = [loaded EXCEPT ![p] =
                  [NotLoaded EXCEPT !.model = model_file.st,
                                    !.after_train = completed # {}]]
  /\ IF model_file.st # "absent"
       THEN LET got == joblib_load(model_file)
            IN IF got.err = ""
                 THEN /\ classifier' = [classifier EXCEPT ![p] = got.object]
                      /\ pc' = [pc EXCEPT ![p] = "model_loaded"]
                      /\ UNCHANGED last
                 ELSE /\ pc' = [pc EXCEPT ![p] = "failed"]
                      /\ last' = [last EXCEPT ![p] =
                                    Outcome("__init__", NoRequest, got.err, -1)]
                      /\ UNCHANGED classifier
       ELSE /\ classifier' = [classifier EXCEPT ![p] = DecisionTreeClassifier]
            /\ pc' = [pc EXCEPT ![p] = "model_loaded"]
            /\ UNCHANGED last
  /\ UNCHANGED << artifacts, encoder, call, next_run, completed >>

(***************************************************************************)
(* __init__, second half: the encoder (and the feature store handle).      *)
(***************************************************************************)
CtorLoadEncoder(p) ==
  /\ pc[p] = "model_loaded"
  /\ loaded' = [loaded EXCEPT ![p].encoder = encoder_file.st,
                              ![p].encoder_run = encoder_file.content.run]
  /\ IF encoder_file.st # "absent"
       THEN LET got == joblib_load(encoder_file)
            IN IF got.err = ""
                 THEN /\ encoder' = [encoder EXCEPT ![p] = got.object]
                      /\ pc' = [pc EXCEPT ![p] = "ready"]
                      /\ last' = [last EXCEPT ![p] =
                                    Outcome("__init__", NoRequest, "", -1)]
                      /\ UNCHANGED classifier
                 ELSE /\ pc' = [pc EXCEPT ![p] = "failed"]
                      /\ last' = [last EXCEPT ![p] =
                                    Outcome("__init__", NoRequest, got.err, -1)]
                      \* the object is never bound: nothing of it remains
                      /\ classifier' =
                           [classifier EXCEPT ![p] = DecisionTreeClassifier]
                      /\ UNCHANGED encoder
       ELSE /\ encoder' = [encoder EXCEPT ![p] = OrdinalEncoder]
            /\ pc' = [pc EXCEPT ![p] = "ready"]
            /\ last' = [last EXCEPT ![p] = Outcome("__init__", NoRequest, "", -1)]
            /\ UNCHANGED classifier
  /\ UNCHANGED << artifacts, call, next_run, completed >>

(***************************************************************************)
(* train(loans), up to encoder.fit in _fit_ordinal_encoder.  The method    *)
(* tests nothing before it starts.  One training job runs at a time.       *)
(***************************************************************************)
SingleWriter(p) == \A q \in Procs \ {p} : pc[q] \notin TrainPcs

train_begin(p, loans) ==
  /\ next_run <= MaxRuns
  /\ SingleWriter(p)
  /\ encoder' = [encoder EXCEPT ![p] =
                   encoder_fit(encoder[p], HistoricalValues(loans), next_run)]
  /\ call' = [call EXCEPT ![p] =
                [loans |-> loans, run |-> next_run,
                 was_trained |-> is_model_trained(classifier[p]),
                 encoder_loaded |-> /\ loaded[p].encoder = "complete"
                                    /\ encoder[p].run = loaded[p].encoder_run]]
  /\ next_run' = next_run + 1
  /\ pc' = [pc EXCEPT ![p] = "encoder_fitted"]
  /\ last' = [last EXCEPT ![p] = NoOutcome]
  /\ UNCHANGED << artifacts, classifier, loaded, completed >>

Train(p, loans) ==
  /\ pc[p] = "ready"
  /\ train_begin(p, loans)

(***************************************************************************)
(* train_model.py: train only a model that is not trained yet.             *)
(***************************************************************************)
script_guard(trained) == ~trained

TrainModelScript(p, loans) ==
  /\ pc[p] = "ready"
  /\ IF script_guard(is_model_trained(classifier[p]))
       THEN train_begin(p, loans)
       ELSE /\ last' = [last EXCEPT ![p] =
                          Outcome("train_model", NoRequest, "already trained", -1)]
            /\ UNCHANGED << artifacts, memory, pc, loaded, call, next_run,
                            completed >>

(***************************************************************************)
(* _fit_ordinal_encoder: joblib.dump(self.encoder, encoder_filename).      *)
(***************************************************************************)
DumpEncoderOpen(p) ==
  /\ pc[p] = "encoder_fitted"
  /\ encoder_file' = joblib_dump_open(OrdinalEncoder)
  /\ pc' = [pc EXCEPT ![p] = "encoder_writing"]
  /\ UNCHANGED << model_file, memory, loaded, call, last, next_run, completed >>

DumpEncoderClose(p) ==
  /\ pc[p] = "encoder_writing"
  /\ encoder_file' = joblib_dump_close(encoder[p])
  /\ pc' = [pc EXCEPT ![p] = "encoder_saved"]
  /\ UNCHANGED << model_file, memory, loaded, call, last, next_run, completed >>

(***************************************************************************)
(* The rest of _get_training_features and classifier.fit in train.         *)
(***************************************************************************)
FitClassifier(p) ==
  /\ pc[p] = "encoder_saved"
  /\ LET applied == apply_ordinal_encoding(encoder[p],
                                           HistoricalValues(call[p].loans))
     IN /\ encoder' = [encoder EXCEPT ![p] = applied.encoder]
        /\ IF applied.result.err = ""
             THEN /\ classifier' = [classifier EXCEPT ![p] =
                        classifier_fit(FitColumns[call[p].loans], call[p].run)]
                  /\ pc' = [pc EXCEPT ![p] = "classifier_fitted"]
                  /\ UNCHANGED << call, last >>
             ELSE /\ pc' = [pc EXCEPT ![p] = "ready"]
                  /\ call' = [call EXCEPT ![p] = NoCall]
                  /\ last' = [last EXCEPT ![p] =
                        Outcome("train", NoRequest, applied.result.err, -1)]
                  /\ UNCHANGED classifier
  /\ UNCHANGED << artifacts, loaded, next_run, completed >>

(***************************************************************************)
(* train: joblib.dump(self.classifier, model_filename), and return.        *)
(***************************************************************************)
DumpModelOpen(p) ==
  /\ pc[p] = "classifier_fitted"
  /\ model_file' = joblib_dump_open(DecisionTreeClassifier)
  /\ pc' = [pc EXCEPT ![p] = "model_writing"]
  /\ UNCHANGED << encoder_file, memory, loaded, call, last, next_run,
                  completed >>

DumpModelClose(p) ==
  /\ pc[p] = "model_writing"
  /\ model_file' = joblib_dump_close(classifier[p])
  /\ pc' = [pc EXCEPT ![p] = "ready"]
  /\ completed' = completed \cup {call[p].run}
  /\ call' = [call EXCEPT ![p] = NoCall]
  /\ last' = [last EXCEPT ![p] = Outcome("train", NoRequest, "", -1)]
  /\ UNCHANGED << encoder_file, memory, loaded, next_run >>

(***************************************************************************)
(* predict(request).  The label a fitted tree gives is not modelled: it    *)
(* is one of 0 (approved) and 1 (rejected).                                *)
(***************************************************************************)
Predict(p, request, label) ==
  /\ pc[p] = "ready"
  /\ LET applied == apply_ordinal_encoding(encoder[p], ServingValues(request))
         refused == classifier_predict(classifier[p], PredictColumns)
     IN /\ encoder' = [encoder EXCEPT ![p] = applied.encoder]
        /\ last' = [last EXCEPT ![p] =
                      IF applied.result.err # ""
                        THEN Outcome("predict", request, applied.result.err, -1)
                      ELSE IF refused # ""
                        THEN Outcome("predict", request, refused, -1)
                      ELSE Outcome("predict", request, "", label)]
  /\ UNCHANGED << artifacts, classifier, pc, loaded, call, next_run, completed >>

(***************************************************************************)
(* is_model_trained().                                                     *)
(***************************************************************************)
IsModelTrained(p) ==
  /\ pc[p] = "ready"
  /\ last' = [last EXCEPT ![p] =
                Outcome("is_model_trained", NoRequest, "",
                        IF is_model_trained(classifier[p]) THEN 1 ELSE 0)]
  /\ UNCHANGED << artifacts, memory, pc, loaded, call, next_run, completed >>

(***************************************************************************)
(* The process ends (it returns, it dies on an exception, it is killed):   *)
(* its objects are gone, the files stay as they are.                       *)
(***************************************************************************)
Exit(p) ==
  /\ pc[p] # "init"
  /\ pc' = [pc EXCEPT ![p] = "init"]
  /\ classifier' = [classifier EXCEPT ![p] = DecisionTreeClassifier]
  /\ encoder' = [encoder EXCEPT ![p] = OrdinalEncoder]
  /\ loaded' = [loaded EXCEPT ![p] = NotLoaded]
  /\ call' = [call EXCEPT ![p] = NoCall]
  /\ last' = [last EXCEPT ![p] = NoOutcome]
  /\ UNCHANGED << artifacts, next_run, completed >>

Next ==
  \E p \in Procs :
    \/ CtorLoadModel(p)
    \/ CtorLoadEncoder(p)
    \/ \E loans \in Corpora : Train(p, loans)
    \/ \E loans \in Corpora : TrainModelScript(p, loans)
    \/ DumpEncoderOpen(p)
    \/ DumpEncoderClose(p)
    \/ FitClassifier(p)
    \/ DumpModelOpen(p)
    \/ DumpModelClose(p)
    \/ \E request \in Requests, label \in {0, 1} : Predict(p, request, label)
    \/ IsModelTrained(p)
    \/ Exit(p)

Spec == Init /\ [][Next]_vars

(***************************************************************************)
(* Properties.                                                             *)
(***************************************************************************)
Unseen(enc, request) ==
  \E c \in Range(categorical_features) :
    ~(ServingValues(request)[c] \subseteq Range(enc.categories_[c]))

Predicted(p) == last[p].op = "predict"

\* C1: whenever the model is not trained, predict fails with the not-trained
\* (not-fitted) failure and returns no label.
C1_UntrainedPredictIsNotFitted ==
  \A p \in Procs :
    (Predicted(p) /\ ~is_model_trained(classifier[p]))
      => (last[p].err = "NotFittedError" /\ last[p].label = -1)

\* C2: once a train call has returned, the pipeline it ran on is trained, every
\* pipeline constructed afterwards is trained and holds a fitted encoder, and
\* predict on a request whose categorical values the pipeline's encoder knows
\* returns a label, 0 or 1.
C2_TrainedThenServes ==
  \A p \in Procs :
    /\ (last[p].op = "train" /\ last[p].err = "")
         => is_model_trained(classifier[p])
    /\ (loaded[p].after_train /\ pc[p] # "failed")
         => is_model_trained(classifier[p])
    /\ (pc[p] = "ready" /\ is_model_trained(classifier[p]))
         => encoder[p].fitted
    /\ (Predicted(p) /\ is_model_trained(classifier[p])
          /\ ~Unseen(encoder[p], last[p].request))
         => (last[p].err = "" /\ last[p].label \in {0, 1})
    /\ completed # {} => model_file.st # "absent"

C2_Witness ==
  \E p \in Procs :
    /\ loaded[p].after_train
    /\ Predicted(p) /\ last[p].err = "" /\ last[p].label = 1

\* C3: a train call on a pipeline whose model is already trained changes
\* neither the pipeline's model and encoder nor the two artifacts.
C3_TrainOnTrainedIsNoOp ==
  [][\A p \in Procs :
       (call[p].was_trained \/ call'[p].was_trained)
         => /\ classifier'[p] = classifier[p]
            /\ encoder'[p] = encoder[p]
            /\ UNCHANGED artifacts]_vars

\* C4: the columns the classifier was fitted on (batch path) are, in the same
\* order, the columns predict hands it (online path), whatever the order of
\* the loan table's columns and of the request's keys.
C4_SameColumnsBothPaths ==
  \A keys \in RequestKeyOrders :
    /\ \A p \in Procs :
         classifier[p].fitted
           => classifier[p].feature_names_in_ = PredictColumnsOf[keys]
    /\ model_file.st = "complete"
         => model_file.content.feature_names_in_ = PredictColumnsOf[keys]

C4_Witness ==
  \E p \in Procs :
    /\ classifier[p].fitted /\ classifier[p].run = 2
    /\ model_file.st = "complete" /\ model_file.content.run = 1

\* C5: a constructor never finds a partially written artifact: what it loads
\* is absent or completely written.
C5_NoPartialArtifactSeen ==
  \A p \in Procs : loaded[p].model # "partial" /\ loaded[p].encoder # "partial"

\* C6: encoder.fit on an encoder that is as it was loaded from a fitted
\* artifact is refused: the encoder and its artifact stay as they are.
C6_LoadedEncoderNotRefitted ==
  [][\A p \in Procs :
       (call[p].encoder_loaded \/ call'[p].encoder_loaded)
         => /\ encoder'[p] = encoder[p]
            /\ encoder_file' = encoder_file]_vars

\* C7: a serving record with a categorical value outside the fitted encoder's
\* vocabulary makes predict fail with UnknownCategory, and no label is returned.
C7_UnseenCategoryFails ==
  \A p \in Procs :
    (Predicted(p) /\ encoder[p].fitted /\ Unseen(encoder[p], last[p].request))
      => (last[p].err = "UnknownCategory" /\ last[p].label = -1)

C7_Witness ==
  \E p \in Procs :
    /\ Predicted(p) /\ is_model_trained(classifier[p]) /\ encoder[p].fitted
    /\ Unseen(encoder[p], last[p].request)

\* C8: predict, whether it succeeds or fails, leaves every pipeline's encoder
\* and model and both artifacts as they were.  (A step is a predict of p if it
\* is Predict for the request and the label it leaves in last[p].)
C8_PredictChangesNoTrainedState ==
  [][\A p \in Procs :
       (/\ last'[p].op = "predict"
        /\ Predict(p, last'[p].request, last'[p].label))
         => UNCHANGED << memory, artifacts >>]_vars

C8_Witness ==
  \E p, q \in Procs :
    /\ Predicted(p) /\ last[p].err = "" /\ encoder[p].fitted
    /\ Predicted(q) /\ last[q].err # ""

\* C9: whatever state the constructor finds the model artifact in, the
\* construction goes on and is_model_trained() then answers: true if the
\* artifact was complete (and so fitted), false if it was absent or partial.
C9_ReadinessNeverRaises ==
  \A p \in Procs :
    loaded[p].model # ""
      => /\ pc[p] \in {"model_loaded", "ready"} \cup TrainPcs
               \/ (pc[p] = "failed" /\ loaded[p].encoder = "partial")
         /\ (pc[p] = "ready" /\ last[p].op = "__init__")
               => (is_model_trained(classifier[p])
                     <=> loaded[p].model = "complete")

\* C10: a pipeline that reports trained holds an encoder fitted by the train
\* invocation that fitted its classifier.
C10_EncoderAndModelOfOneRun ==
  \A p \in Procs :
    (pc[p] = "ready" /\ is_model_trained(classifier[p]))
      => (encoder[p].fitted /\ encoder[p].run = classifier[p].run)
====
